---- MODULE Spec2Model ----
(***************************************************************************)
(* The Solution Review Pipeline of the LMS: the Solution state machine,    *)
(* the version superseder (create_solution), the review queue selector     *)
(* (_base_next_unchecked), the reviewer workflow of the web layer and the  *)
(* bounded notification store.                                             *)
(*                                                                         *)
(* A relational table is modelled by its rows.  Solution ids are the       *)
(* positions in the sequence `solutions` (the store never deletes a        *)
(* solution); the Comment and SolutionExerciseTestExecution tables are     *)
(* modelled by the number of rows whose foreign key is a given solution.   *)
(***************************************************************************)
EXTENDS Integers, Sequences, FiniteSets, TLC

\* ---- bounds of the model
MaxSolutions == 2
MaxCommentRows == 3
MaxTestRows == 2
MaxSends == 11
MaxReads == 1
MaxOverlappingSends == 2
MaxCases == 2

\* ---- Notification.MAX_PER_USER
MAX_PER_USER == 10

\* ---- ExerciseTestName.FATAL_TEST_NAME
FATAL_TEST_NAME == "fatal_test_failure"

\* ---- populations
Exercises == {1, 2}
Solvers == {1, 2}
Reviewers == {1, 2}
Writers == {1, 2}
SuiteCounts == {0, 1, 2}

\* the exercises that have an ExerciseTest row
ExercisesWithTest == {1}

\* a NULL foreign key / Python's None
None == 0

\* ---- SolutionState (lmsdb/models.py:229-233), by enum names
CREATED == "CREATED"
IN_CHECKING == "IN_CHECKING"
DONE == "DONE"
OLD_SOLUTION == "OLD_SOLUTION"

SolutionState == {CREATED, IN_CHECKING, DONE, OLD_SOLUTION}

\* SolutionState.active_solutions
active_solutions == {DONE, IN_CHECKING, CREATED}

VARIABLES
    solutions,      \* Solution table: sequence of rows, id = position
    commentRows,    \* commentRows[id]: number of Comment rows of solution id
    testRows,       \* testRows[id]: the SolutionExerciseTestExecution rows of
                    \* solution id, each by its test name, in insertion order
    pc,             \* pc[r]: where reviewer r's /check request stands
    sel,            \* sel[r]: the solution get_next_unchecked returned to r
    redirect,       \* redirect[r]: the solution r's last /check redirected to
    notifications,  \* Notification table: the set of rows
    sent,           \* every Notification row ever inserted, by id (history)
    reads,          \* number of Notification.read calls so far
    wpc,            \* wpc[w]: where writer w's Notification.send stands
    winstance,      \* winstance[w]: the row writer w's send has created
    wold,           \* wold[w]: rows the hook of w's send has yet to delete
    fetched,        \* the rows the last Notification.fetch returned
    run,            \* the last UnitTestChecker.run_check call: what it was
                    \* given and how it ended
    set_state_call, \* a direct Solution.set_state call: on which id, to
                    \* which state, and the value it returned
    legacy,         \* the Solution table of the older lmsweb package: its
                    \* rows and the number of rows ever inserted
    reply,          \* the last read-only query: which one, on which exercise,
                    \* whether it raised, and what it returned
    creating,       \* each uploading worker's position inside create_solution:
                    \* the row it inserted and the other rows it has read
    session         \* the Flask session of the password form: _invalid_tries
                    \* and the outcome of the last validation

solVars == <<solutions, commentRows, testRows, pc, sel, redirect>>

callVars == <<wpc, winstance, wold, fetched, run, set_state_call, legacy, reply, creating, session>>

notifVars == <<notifications, sent, reads, callVars>>

vars == <<solVars, notifVars>>

\* a row whose state holds the enum's value, not its name
NewSolution_state_value(exercise, solver, json_data_str, timestamp) ==
    [exercise |-> exercise, solver |-> solver, checker |-> None,
     state |-> "Created", grade |-> 0, submission_timestamp |-> timestamp,
     json_data_str |-> json_data_str]

\* ---- the Solution row as Solution.create builds it (field defaults)
NewSolution(exercise, solver, json_data_str, timestamp) ==
    [exercise |-> exercise, solver |-> solver, checker |-> None,
     state |-> CREATED, grade |-> 0, submission_timestamp |-> timestamp,
     json_data_str |-> json_data_str]

SolutionIds(S) == DOMAIN S

\* ---- Solution.set_state: UPDATE solution SET state = new_state [, checker]
\*      WHERE id = self.id; no filter on the old state.
\* an UPDATE with no WHERE clause
requested_solution_all(S, id) == SolutionIds(S)

requested_solution(S, id) == {i \in SolutionIds(S) : i = id}

set_state(S, id, new_state) ==
    [i \in SolutionIds(S) |->
        IF i \in requested_solution(S, id)
        THEN [S[i] EXCEPT !.state = new_state]
        ELSE S[i]]

\* set_state that leaves **kwargs out of the UPDATE
set_state_checker_dropped(S, id, new_state, by) == set_state(S, id, new_state)

set_state_checker(S, id, new_state, by) ==
    [i \in SolutionIds(S) |->
        IF i \in requested_solution(S, id)
        THEN [S[i] EXCEPT !.state = new_state, !.checker = by]
        ELSE S[i]]

\* the value set_state returns: changes.execute() == 1
updated(S, id) == Cardinality(requested_solution(S, id)) = 1

\* a start_checking that writes OLD_SOLUTION
Solution_start_checking_old(S, id) == set_state(S, id, OLD_SOLUTION)

\* ---- Solution.start_checking: set_state(IN_CHECKING)
\* start_checking that writes CREATED
Solution_start_checking_created(S, id) == set_state(S, id, CREATED)

Solution_start_checking(S, id) == set_state(S, id, IN_CHECKING)

\* other_solutions without the clause cls.id != instance.id
other_solutions_with_instance(S, exercise, solver, instance) ==
    {i \in SolutionIds(S) :
        /\ S[i].exercise = exercise
        /\ S[i].solver = solver}

\* other_solutions without the clause cls.solver == solver
other_solutions_of_exercise(S, exercise, solver, instance) ==
    {i \in SolutionIds(S) :
        /\ S[i].exercise = exercise
        /\ i # instance}

\* ---- Solution.create_solution
other_solutions(S, exercise, solver, instance) ==
    {i \in SolutionIds(S) :
        /\ S[i].exercise = exercise
        /\ S[i].solver = solver
        /\ i # instance}

\* create_solution without its loop over other_solutions
set_old_skipped(S, ids) == S

RECURSIVE set_old(_, _)
set_old(S, ids) ==
    IF ids = {} THEN S
    ELSE LET old_solution == CHOOSE i \in ids : TRUE
         IN set_old(set_state(S, old_solution, OLD_SOLUTION),
                    ids \ {old_solution})

create_solution(S, exercise, solver, json_data_str, timestamp) ==
    LET inserted ==
            Append(S, NewSolution(exercise, solver, json_data_str, timestamp))
        instance == Len(inserted)
    IN set_old(inserted, other_solutions(inserted, exercise, solver, instance))

\* ---- Solution._base_next_unchecked
\* Solution LEFT OUTER JOIN Comment LEFT OUTER JOIN SolutionExerciseTestExecution,
\* both ON <table>.solution == Solution.id: the joined rows of one solution are
\* the pairs (comment row, test row); a side with no matching row is one NULL.
CommentSide(id) == IF commentRows[id] = 0 THEN {None} ELSE 1..commentRows[id]

TestSide(id) ==
    IF testRows[id] = <<>> THEN {None} ELSE 1..Len(testRows[id])

JoinedRows(id) == CommentSide(id) \X TestSide(id)

\* fn.Count of every joined row of the group, NULL or not
count_star(id) == Cardinality(JoinedRows(id))

\* fn.Count(Comment.id): the joined rows of the group whose Comment.id is not
\* NULL, i.e. the pairs of a Comment row with any entry of the test side
comments_count(id) ==
    Cardinality(CommentSide(id) \ {None}) * Cardinality(TestSide(id))

\* fn.Count(SolutionExerciseTestExecution.id): the pairs of a test result row
\* with any entry of the comment side
failures(id) ==
    Cardinality(TestSide(id) \ {None}) * Cardinality(CommentSide(id))

\* the ordering with submission_timestamp DESC
OrderBefore_desc(a, b) ==
    \/ comments_count(a) < comments_count(b)
    \/ /\ comments_count(a) = comments_count(b)
       /\ failures(a) < failures(b)
    \/ /\ comments_count(a) = comments_count(b)
       /\ failures(a) = failures(b)
       /\ solutions[a].submission_timestamp > solutions[b].submission_timestamp

\* ORDER BY comments_count, failures, submission_timestamp ASC
OrderBefore(a, b) ==
    LET comments_a == comments_count(a)
        comments_b == comments_count(b)
    IN \/ comments_a < comments_b
       \/ /\ comments_a = comments_b
          /\ failures(a) < failures(b)
       \/ /\ comments_a = comments_b
          /\ failures(a) = failures(b)
          /\ solutions[a].submission_timestamp
                < solutions[b].submission_timestamp

\* the query without its WHERE state == CREATED
base_next_unchecked_any_state(exercise_id) ==
    {id \in SolutionIds(solutions) :
        exercise_id = None \/ solutions[id].exercise = exercise_id}

\* WHERE state == CREATED [AND exercise == exercise_id], GROUP BY Solution.id;
\* exercise_id = None stands for the unscoped query of next_unchecked
base_next_unchecked(exercise_id) ==
    {id \in SolutionIds(solutions) :
        /\ solutions[id].state = CREATED
        /\ (exercise_id = None \/ solutions[id].exercise = exercise_id)}

\* .get(): the first row of the ordered query.  Rows equal on the three keys
\* come in an order the database chooses, so every one of them may be first.
FirstRows(exercise_id) ==
    LET rows == base_next_unchecked(exercise_id)
    IN {id \in rows : \A other \in rows : ~OrderBefore(other, id)}

\* Solution.next_unchecked / next_unchecked_of: the values the call may return;
\* DoesNotExist is caught and becomes None
next_unchecked ==
    LET first == FirstRows(None) IN IF first = {} THEN {None} ELSE first

next_unchecked_of(exercise_id) ==
    LET first == FirstRows(exercise_id)
    IN IF first = {} THEN {None} ELSE first

\* ---- lms.models.solutions (the web layer's helpers)
\* get_next_unchecked(exercise_id): exercise id 0 means any exercise; a scoped
\* query that returns nothing falls back to the unscoped one
get_next_unchecked(exercise_id) ==
    IF exercise_id = None THEN next_unchecked
    ELSE LET scoped == next_unchecked_of(exercise_id)
         IN IF scoped # {None} THEN scoped ELSE next_unchecked

\* start_checking(solution): False for None, else Solution.start_checking
start_checking_result(S, solution) ==
    IF solution = None THEN FALSE ELSE updated(S, solution)

start_checking(S, solution) ==
    IF solution = None THEN S ELSE Solution_start_checking(S, solution)

\* mark_as_checked(solution_id, checker_id): set_state(DONE, checker=checker_id)
mark_as_checked(S, solution_id, checker_id) ==
    set_state_checker(S, solution_id, DONE, checker_id)

\* ---- datetime.now() at an insert: the wall clock does not run backwards, and
\* two uploads served by different workers may read the same value
Timestamps(S) ==
    IF Len(S) = 0 THEN {1}
    ELSE {S[Len(S)].submission_timestamp, S[Len(S)].submission_timestamp + 1}

\* ---- who uploads: learners and exercises are numbered in the order of their
\* first upload, so the next upload comes from a known one or from the first
\* that has none yet
UploadingSolvers ==
    {solver \in Solvers :
        \A earlier \in Solvers :
            earlier < solver
                => \E id \in SolutionIds(solutions) : solutions[id].solver = earlier}

UploadedExercises ==
    {exercise \in Exercises :
        \A earlier \in Exercises :
            earlier < exercise
                => \E id \in SolutionIds(solutions) :
                      solutions[id].exercise = earlier}

RECURSIVE SumSeq(_)
SumSeq(q) == IF Len(q) = 0 THEN 0 ELSE q[1] + SumSeq(Tail(q))

InitSolutions ==
    /\ solutions = <<>>
    /\ commentRows = <<>>
    /\ testRows = <<>>
    /\ pc = [r \in Reviewers |-> "idle"]
    /\ sel = [r \in Reviewers |-> None]
    /\ redirect = [r \in Reviewers |-> None]

\* ---- the content of an upload the ingress lets through: one the store does
\* not hold yet; contents are numbered in the order of their first upload
NewContent(S) == Len(S) + 1

\* ---- a learner's upload: Solution.create_solution(exercise, solver, ...)
Upload(exercise, solver) ==
    /\ Len(solutions) < MaxSolutions
    /\ \E timestamp \in Timestamps(solutions) :
          solutions' = create_solution(
                           solutions, exercise, solver, NewContent(solutions),
                           timestamp)
    /\ commentRows' = Append(commentRows, 0)
    /\ testRows' = Append(testRows, <<>>)
    /\ UNCHANGED <<pc, sel, redirect>>
    /\ UNCHANGED notifVars

\* ---- Comment.create(..., solution=...): one more Comment row of the solution
CreateComment(id) ==
    /\ id \in SolutionIds(solutions)
    /\ SumSeq(commentRows) < MaxCommentRows
    /\ commentRows' = [commentRows EXCEPT ![id] = @ + 1]
    /\ UNCHANGED <<solutions, testRows, pc, sel, redirect>>
    /\ UNCHANGED notifVars

\* the number of SolutionExerciseTestExecution rows in table T
CountRows(T) == SumSeq([id \in DOMAIN T |-> Len(T[id])])

\* ---- SolutionExerciseTestExecution.create_execution_result(solution,
\* test_name, ...): cls.create of one row under the ExerciseTestName of
\* test_name (get_exercise_test gets or creates it)
\* a write that keeps one row per solution: the new row replaces the old ones
execution_result_replaced(T, id, test_name) ==
    [T EXCEPT ![id] = <<test_name>>]

execution_result_created(T, id, test_name) ==
    [T EXCEPT ![id] = Append(@, test_name)]

create_execution_result(id, test_name) ==
    /\ id \in SolutionIds(solutions)
    /\ CountRows(testRows) < MaxTestRows
    /\ testRows' = execution_result_created(testRows, id, test_name)
    /\ UNCHANGED <<solutions, commentRows, pc, sel, redirect>>
    /\ UNCHANGED notifVars

\* ---- GET /check/<exercise_id>, served without interleaving; its response
\* (the redirect) is not kept
StartCheckingView(r, exercise_id) ==
    /\ pc[r] = "idle"
    /\ \E next_solution \in get_next_unchecked(exercise_id) :
          solutions' = start_checking(solutions, next_solution)
    /\ UNCHANGED <<commentRows, testRows, pc, sel, redirect>>
    /\ UNCHANGED notifVars

\* ---- POST /checked/<exercise_id>/<solution_id>
DoneCheckingView(r, solution_id) ==
    /\ solution_id \in SolutionIds(solutions)
    /\ solutions' = mark_as_checked(solutions, solution_id, r)
    /\ UNCHANGED <<commentRows, testRows, pc, sel, redirect>>
    /\ UNCHANGED notifVars

\* ---- solution.set_state(new_state) on a Solution object of identifier id,
\* whose row the table may not hold
SetState(id, new_state) ==
    /\ solutions' = set_state(solutions, id, new_state)
    /\ set_state_call' =
          [id |-> id, new_state |-> new_state, updated |-> updated(solutions, id)]
    /\ UNCHANGED <<commentRows, testRows, pc, sel, redirect>>
    /\ UNCHANGED <<notifications, sent, reads, wpc, winstance, wold, fetched, run, legacy, reply, creating, session>>

\* ---- GET /check/<exercise_id> as the two store round trips it makes
\* first: next_solution = solutions.get_next_unchecked(exercise_id)
CheckSelect(r, exercise_id) ==
    /\ pc[r] = "idle"
    /\ \E next_solution \in get_next_unchecked(exercise_id) :
          sel' = [sel EXCEPT ![r] = next_solution]
    /\ pc' = [pc EXCEPT ![r] = "selected"]
    /\ UNCHANGED <<solutions, commentRows, testRows, redirect>>
    /\ UNCHANGED notifVars

\* second: solutions.start_checking(next_solution), then the redirect
CheckStart(r) ==
    /\ pc[r] = "selected"
    /\ solutions' = start_checking(solutions, sel[r])
    /\ redirect' = [redirect EXCEPT ![r] =
          IF start_checking_result(solutions, sel[r]) THEN sel[r] ELSE None]
    /\ pc' = [pc EXCEPT ![r] = "idle"]
    /\ UNCHANGED <<commentRows, testRows, sel>>
    /\ UNCHANGED notifVars

\* ---- the Notification row Notification.create builds (viewed defaults to
\* False); created is datetime.now(), which for calls made one after the other
\* is later than at every earlier call
Now == Len(sent) + 1

NewNotification(user) ==
    [id |-> Len(sent) + 1, user |-> user, created |-> Now, viewed |-> FALSE,
     kind |-> 1, message |-> Len(sent) + 1, related_id |-> None]

\* ---- on_notification_saved (post_save of Notification)
\* SELECT ... WHERE user == instance.user ORDER BY created DESC
\* OFFSET MAX_PER_USER: the rows after the first MAX_PER_USER.  A row with
\* MAX_PER_USER later rows is past the offset; rows equal on created come in
\* an order the database chooses.
\* a WHERE clause that matches every user's rows
OfUser_any(rows, user) == rows

OfUser(rows, user) == {n \in rows : n.user = user}

\* ORDER BY created ASC, as a slip would have it
created_asc(m, n) == m.created < n.created

\* ORDER BY created DESC: row m sorts before row n
created_desc(m, n) == m.created > n.created

Later(rows, n) == {m \in rows : created_desc(m, n)}

NotEarlier(rows, n) == {m \in rows \ {n} : ~created_desc(n, m)}

\* the same SELECT with OFFSET MAX_PER_USER + 1
old_notifications_offset_past(rows, user) ==
    LET mine == OfUser(rows, user)
        surely == {n \in mine : Cardinality(Later(mine, n)) >= MAX_PER_USER + 1}
        maybe == {n \in mine :
                    Cardinality(NotEarlier(mine, n)) >= MAX_PER_USER + 1}
    IN {old \in SUBSET maybe :
          /\ surely \subseteq old
          /\ Cardinality(mine \ old) = IF Cardinality(mine) > MAX_PER_USER + 1
                                       THEN MAX_PER_USER + 1
                                       ELSE Cardinality(mine)}

old_notifications(rows, user) ==
    LET mine == OfUser(rows, user)
        surely == {n \in mine : Cardinality(Later(mine, n)) >= MAX_PER_USER}
        maybe == {n \in mine : Cardinality(NotEarlier(mine, n)) >= MAX_PER_USER}
    IN {old \in SUBSET maybe :
          /\ surely \subseteq old
          /\ Cardinality(mine \ old) = IF Cardinality(mine) > MAX_PER_USER
                                       THEN MAX_PER_USER
                                       ELSE Cardinality(mine)}

\* a save with no post_save hook
no_hook(rows, user) == {rows}

\* for instance in old_notifications: instance.delete_instance()
on_notification_saved(rows, user) ==
    {rows \ old : old \in old_notifications(rows, user)}

NoRun ==
    [call |-> [solution |-> None, executor_raised |-> FALSE, kind |-> "None",
               suites |-> 0, cases |-> 0, failures |-> 0, failed |-> {}],
     raised |-> FALSE]

NoReply ==
    [call |-> "none", exercise |-> None, solver |-> None, json_data_str |-> None,
     raised |-> FALSE, value |-> 0, rows |-> <<>>]

Uploaders == {1, 2}

NotCreating ==
    [pc |-> "idle", instance |-> None, exercise |-> None, solver |-> None,
     other_solutions |-> {}]

NoSession ==
    [invalid_tries |-> 0, validated |-> 0, data |-> None, rejected |-> FALSE]

NoCall == [id |-> None, new_state |-> CREATED, updated |-> FALSE]

InitWriters ==
    /\ wpc = [w \in Writers |-> "idle"]
    /\ winstance = [w \in Writers |-> None]
    /\ wold = [w \in Writers |-> {}]
    /\ fetched = <<>>
    /\ run = NoRun
    /\ set_state_call = NoCall
    /\ legacy = [rows |-> {}, created |-> 0]
    /\ reply = NoReply
    /\ creating = [u \in Uploaders |-> NotCreating]
    /\ session = [user \in Solvers |-> NoSession]

InitNotifications ==
    /\ notifications = {}
    /\ sent = <<>>
    /\ reads = 0
    /\ InitWriters

\* ---- Notification.send(user, ...): create the row, then the post_save hook
send(user) ==
    /\ Len(sent) < MaxSends
    /\ notifications' \in
          on_notification_saved(notifications \cup {NewNotification(user)}, user)
    /\ sent' = Append(sent, NewNotification(user))
    /\ UNCHANGED <<reads, callVars>>
    /\ UNCHANGED solVars

\* a read that flips the flag
viewed_flipped(n) == [n EXCEPT !.viewed = ~@]

\* self.viewed = True
viewed_true(n) == [n EXCEPT !.viewed = TRUE]

\* self.save(): the row of this id is rewritten, then the post_save hook runs;
\* the stores the call may leave
read_saved(rows, n) ==
    on_notification_saved((rows \ {n}) \cup {viewed_true(n)}, n.user)

\* ---- Notification.read(): viewed = True, save(), then the post_save hook
read(n) ==
    /\ n \in notifications
    /\ reads < MaxReads
    /\ notifications' \in read_saved(notifications, n)
    /\ reads' = reads + 1
    /\ UNCHANGED <<sent, callVars>>
    /\ UNCHANGED solVars

\* ---- Notification.fetch(user)
\* .order_by(Notification.created.desc()): the orders the database may return
\* the rows in (rows equal on created come in an order it chooses)
RECURSIVE order_by_created_desc(_)
order_by_created_desc(rows) ==
    IF rows = {}
    THEN {<<>>}
    ELSE UNION {{<<n>> \o q : q \in order_by_created_desc(rows \ {n})} :
                  n \in {m \in rows : Later(rows, m) = {}}}

\* a query with no LIMIT clause
limit_none(q, k) == q

\* .limit(k)
limit(q, k) == IF Len(q) <= k THEN q ELSE SubSeq(q, 1, k)

\* select().join(User).where(user_id).order_by(...).limit(MAX_PER_USER)
fetch(rows, user) ==
    {limit(q, MAX_PER_USER) : q \in order_by_created_desc(OfUser(rows, user))}

\* ---- sends that overlap: Notification.create inserts the row (one
\* statement), and the post_save hook then runs its SELECT (one statement)
\* and one DELETE per selected row; statements of different writers interleave

\* the latest created value handed out so far
Clock == IF sent = <<>> THEN 0 ELSE sent[Len(sent)].created

\* datetime.now() of a send: later than every completed send's; a send still
\* in flight may have read the clock in the same instant
CreatedNow(w) ==
    IF \E v \in Writers \ {w} : wpc[v] # "idle" /\ winstance[v].created = Clock
    THEN {Clock, Clock + 1}
    ELSE {Clock + 1}

\* the store after MAX_PER_USER sends to user 1 made one at a time
FullStore ==
    [i \in 1..MAX_PER_USER |->
        [id |-> i, user |-> 1, created |-> i, viewed |-> FALSE,
         kind |-> 1, message |-> i, related_id |-> None]]

InitOverlap ==
    /\ InitSolutions
    /\ sent = FullStore
    /\ notifications = {FullStore[i] : i \in 1..MAX_PER_USER}
    /\ reads = 0
    /\ InitWriters

\* ---- the stores a read finds: user 1 holds MAX_PER_USER notifications, user
\* 2 up to MaxOtherRows, all sent one at a time, and at most one of them has
\* been read before
MaxOtherRows == 2

OtherRows(k) ==
    [i \in 1..k |->
        [id |-> MAX_PER_USER + i, user |-> 2, created |-> MAX_PER_USER + i,
         viewed |-> FALSE, kind |-> 1, message |-> MAX_PER_USER + i,
         related_id |-> None]]

InitRead ==
    /\ InitSolutions
    /\ \E k \in 0..MaxOtherRows :
          /\ sent = FullStore \o OtherRows(k)
          /\ \E seen \in {{}} \cup {{i} : i \in 1..(MAX_PER_USER + k)} :
                notifications =
                    {IF i \in seen THEN viewed_true(sent[i]) ELSE sent[i] :
                        i \in 1..(MAX_PER_USER + k)}
    /\ reads = 0
    /\ InitWriters

\* cls.create(...): INSERT
SendCreate(w, user) ==
    /\ wpc[w] = "idle"
    /\ Len(sent) < MAX_PER_USER + MaxOverlappingSends
    /\ \E created \in CreatedNow(w) :
          LET n == [id |-> Len(sent) + 1, user |-> user,
                    created |-> created, viewed |-> FALSE,
                    kind |-> 1, message |-> Len(sent) + 1, related_id |-> None]
          IN /\ notifications' = notifications \cup {n}
             /\ sent' = Append(sent, n)
             /\ winstance' = [winstance EXCEPT ![w] = n]
    /\ wpc' = [wpc EXCEPT ![w] = "saved"]
    /\ fetched' = <<>>
    /\ UNCHANGED <<reads, wold, run, set_state_call, legacy, reply, creating, session>>
    /\ UNCHANGED solVars

\* on_notification_saved: the SELECT ... OFFSET MAX_PER_USER is run when the
\* for loop starts
HookSelect(w) ==
    /\ wpc[w] = "saved"
    /\ \E rows \in old_notifications(notifications, winstance[w].user) :
          /\ wold' = [wold EXCEPT ![w] = rows]
          /\ wpc' = [wpc EXCEPT ![w] = IF rows = {} THEN "idle" ELSE "deleting"]
          /\ winstance' = [winstance EXCEPT ![w] = IF rows = {} THEN None ELSE @]
    /\ UNCHANGED <<notifications, sent, reads, fetched, run, set_state_call, legacy, reply, creating, session>>
    /\ UNCHANGED solVars

\* on_notification_saved: instance.delete_instance() of the next selected
\* row, in the order of the SELECT
HookDelete(w) ==
    /\ wpc[w] = "deleting"
    /\ \E n \in {m \in wold[w] : Later(wold[w], m) = {}} :
          /\ notifications' = notifications \ {n}
          /\ wold' = [wold EXCEPT ![w] = @ \ {n}]
          /\ wpc' = [wpc EXCEPT ![w] = IF wold[w] = {n} THEN "idle" ELSE @]
          /\ winstance' = [winstance EXCEPT ![w] = IF wold[w] = {n} THEN None ELSE @]
    /\ fetched' = <<>>
    /\ UNCHANGED <<sent, reads, run, set_state_call, legacy, reply, creating, session>>
    /\ UNCHANGED solVars

\* a caller runs Notification.fetch(user) and holds the rows until the store
\* is next written
Fetch(user) ==
    /\ UNCHANGED <<notifications, sent, reads, wpc, winstance, wold, run, set_state_call, legacy, reply, creating, session>>
    /\ UNCHANGED solVars
    /\ fetched' \in fetch(notifications, user)

\* ---- the junit report of a pytest run: suites of cases; a case is named
\* after its suite and position, and case.result is None for a passed case and
\* an element (failure, error) otherwise
CaseName(s, c) == "test_" \o ToString(s) \o "_" \o ToString(c)

Outcomes == UNION {[1..k -> BOOLEAN] : k \in 0..MaxCases}

TestSuite(s, failed) ==
    [c \in 1..Len(failed) |-> [name |-> CaseName(s, c), failed |-> failed[c]]]

Documents ==
    UNION {{[s \in 1..k |-> TestSuite(s, f[s])] : f \in [1..k -> Outcomes]} :
             k \in SuiteCounts}

\* what _run_tests_on_solution hands over: None when the executor raised,
\* and otherwise the content of output.xml, which may be empty, may fail to
\* parse, or is a report
NoResults == [kind |-> "None", suites |-> <<>>]

FileContents ==
    {[kind |-> "empty", suites |-> <<>>], [kind |-> "malformed", suites |-> <<>>]}
        \cup {[kind |-> "xml", suites |-> d] : d \in Documents}

\* ---- UnitTestChecker._run_tests_on_solution: an exception of the executor
\* is logged and junit_results stays None
run_tests_on_solution(raised, file) == IF raised THEN NoResults ELSE file

\* ---- UnitTestChecker._handle_test_suite, the rows it leaves and what it
\* returns
RECURSIVE handle_cases(_, _, _)
handle_cases(T, id, cases) ==
    IF cases = <<>>
    THEN [rows |-> T, number_of_failures |-> 0]
    ELSE LET case == Head(cases)
             after == IF case.failed
                      THEN execution_result_created(T, id, case.name)
                      ELSE T
             rest == handle_cases(after, id, Tail(cases))
         IN [rows |-> rest.rows,
             number_of_failures |->
                 rest.number_of_failures + IF case.failed THEN 1 ELSE 0]

\* a row for every case, passed ones too
handle_test_suite_every_case(T, id, test_suite) ==
    LET all == [c \in DOMAIN test_suite |-> [test_suite[c] EXCEPT !.failed = TRUE]]
        done == handle_cases(T, id, all)
    IN [rows |-> done.rows,
        number_of_failures |-> handle_cases(T, id, test_suite).number_of_failures,
        tests_ran |-> test_suite # <<>>]

handle_test_suite(T, id, test_suite) ==
    LET done == handle_cases(T, id, test_suite)
    IN [rows |-> done.rows,
        number_of_failures |-> done.number_of_failures,
        tests_ran |-> test_suite # <<>>]

\* the loop over the suites of _populate_junit_results
RECURSIVE handle_suites(_, _, _)
handle_suites(T, id, suites) ==
    IF suites = <<>>
    THEN [rows |-> T, number_of_failures |-> 0, tests_ran |-> FALSE]
    ELSE LET first == handle_test_suite(T, id, Head(suites))
             rest == handle_suites(first.rows, id, Tail(suites))
         IN [rows |-> rest.rows,
             number_of_failures |->
                 first.number_of_failures + rest.number_of_failures,
             tests_ran |-> first.tests_ran \/ rest.tests_ran]

\* a fatal branch that records the row and tells nobody
handle_failed_to_execute_tests_silent(T, id) ==
    [rows |-> execution_result_created(T, id, FATAL_TEST_NAME), sends |-> 0]

\* ---- UnitTestChecker._handle_failed_to_execute_tests: one row under
\* FATAL_TEST_NAME and one notifications.send
handle_failed_to_execute_tests(T, id) ==
    [rows |-> execution_result_created(T, id, FATAL_TEST_NAME), sends |-> 1]

\* one notification for each failure
failure_notifications_each(number_of_failures) == number_of_failures

\* the notifications.send calls at the end of _populate_junit_results
failure_notifications(number_of_failures) ==
    IF number_of_failures = 0 THEN 0 ELSE 1

\* ---- UnitTestChecker._populate_junit_results(raw_results): the rows it
\* leaves, the notifications.send calls it makes, and whether it raised
\* (junitparser's fromstring raises on text that does not parse, before
\* anything is written)
populate_junit_results(T, id, raw_results) ==
    IF raw_results.kind = "malformed"
    THEN [rows |-> T, sends |-> 0, raised |-> TRUE]
    ELSE LET suites == IF raw_results.kind \in {"None", "empty"}
                       THEN <<>>
                       ELSE raw_results.suites
             done == handle_suites(T, id, suites)
         IN IF ~done.tests_ran
            THEN LET fatal == handle_failed_to_execute_tests(done.rows, id)
                 IN [rows |-> fatal.rows, sends |-> fatal.sends, raised |-> FALSE]
            ELSE [rows |-> done.rows,
                  sends |-> failure_notifications(done.number_of_failures),
                  raised |-> FALSE]

\* ---- notifications.send(user, ...) of lms.models.notifications:
\* Notification.send, made `sends` times one after the other; the stores it
\* may leave
RECURSIVE notifications_send(_, _, _, _)
notifications_send(rows, history, user, sends) ==
    IF sends = 0
    THEN {[notifications |-> rows, sent |-> history]}
    ELSE LET n == [id |-> Len(history) + 1, user |-> user,
                   created |-> Len(history) + 1, viewed |-> FALSE,
                   kind |-> 1, message |-> Len(history) + 1,
                   related_id |-> None]
         IN UNION {notifications_send(kept, Append(history, n), user, sends - 1) :
                     kept \in on_notification_saved(rows \cup {n}, user)}

\* what a run_check call was given, in numbers
RECURSIVE CountCases(_, _)
CountCases(suites, failedOnly) ==
    IF suites = <<>>
    THEN 0
    ELSE Cardinality({c \in DOMAIN Head(suites) :
                        failedOnly => Head(suites)[c].failed})
            + CountCases(Tail(suites), failedOnly)

\* an initialize() that finds a test for every exercise
exercise_auto_test_any(S, id) == TRUE

\* ---- UnitTestChecker.initialize: ExerciseTest.get_by_exercise of the
\* solution's exercise; TRUE when a test is defined, FALSE for None
exercise_auto_test(S, id) == S[id].exercise \in ExercisesWithTest

\* ---- UnitTestChecker.run_check on solution id (initialize() has loaded
\* it), as what it may leave: the rows, the notification store and whether
\* it raised
run_check_outcomes(T, rows, history, id, raised, file) ==
    LET has_test == exercise_auto_test(solutions, id)
        junit_results == run_tests_on_solution(raised, file)
        done == IF has_test
                THEN populate_junit_results(T, id, junit_results)
                ELSE [rows |-> T, sends |-> 0, raised |-> FALSE]
    IN {[testRows |-> done.rows,
         notifications |-> store.notifications,
         sent |-> store.sent,
         raised |-> done.raised] :
           store \in notifications_send(
                        rows, history, solutions[id].solver, done.sends)}

\* the call, for the record: what it was given, in numbers
RunRecord(id, raised, file) ==
    LET junit_results == run_tests_on_solution(raised, file)
    IN [solution |-> id,
        executor_raised |-> raised,
        kind |-> junit_results.kind,
        suites |-> Len(junit_results.suites),
        cases |-> CountCases(junit_results.suites, FALSE),
        failures |-> CountCases(junit_results.suites, TRUE),
        failed |-> UNION {{suite[c].name :
                              c \in {d \in DOMAIN suite : suite[d].failed}} :
                            suite \in {junit_results.suites[s] :
                                         s \in DOMAIN junit_results.suites}}]

\* ---- the store a run finds: learner 1 has uploaded to exercise 1 and
\* learner 2 to some exercise, and each solution has been checked once before,
\* with a clean pass, an empty report or one failing case
UploadedStores ==
    {create_solution(create_solution(<<>>, 1, 1, 1, 1), exercise, 2, 2, 2) :
        exercise \in Exercises}

EarlierFiles ==
    {[kind |-> "empty", suites |-> <<>>],
     [kind |-> "xml", suites |-> <<TestSuite(1, <<FALSE>>)>>],
     [kind |-> "xml", suites |-> <<TestSuite(1, <<TRUE>>)>>]}

InitIngest ==
    /\ solutions \in UploadedStores
    /\ commentRows = <<0, 0>>
    /\ pc = [r \in Reviewers |-> "idle"]
    /\ sel = [r \in Reviewers |-> None]
    /\ redirect = [r \in Reviewers |-> None]
    /\ \E first \in EarlierFiles, second \in EarlierFiles :
          \E a \in run_check_outcomes(<<<<>>, <<>>>>, {}, <<>>, 1, FALSE, first) :
             \E b \in run_check_outcomes(
                         a.testRows, a.notifications, a.sent, 2, FALSE, second) :
                /\ testRows = b.testRows
                /\ notifications = b.notifications
                /\ sent = b.sent
    /\ reads = 0
    /\ InitWriters

\* a checker that closes the review of the solution it has checked
solutions_after_check_done(S, id) == set_state(S, id, DONE)

\* ---- the Solution table after UnitTestChecker has run on solution id:
\* initialize() reads the row by id, and no statement of the class writes a
\* column of Solution
solutions_after_check(S, id) == S

\* ---- one UnitTestChecker.run_check call
run_check(id, raised, file) ==
    /\ run = NoRun
    /\ id \in SolutionIds(solutions)
    /\ \E done \in run_check_outcomes(
                      testRows, notifications, sent, id, raised, file) :
          /\ testRows' = done.testRows
          /\ notifications' = done.notifications
          /\ sent' = done.sent
          /\ run' = [call |-> RunRecord(id, raised, file), raised |-> done.raised]
    /\ solutions' = solutions_after_check(solutions, id)
    /\ UNCHANGED <<commentRows, pc, sel, redirect>>
    /\ UNCHANGED <<reads, wpc, winstance, wold, fetched, set_state_call, legacy, reply, creating, session>>

\* ---- the older lmsweb package: POST /upload (src/lmsweb/views.py)
NotebookSizes == {1, 2}

\* the exercises a notebook holds solutions for, in the order of the file
Notebooks == UNION {[1..k -> Exercises] : k \in NotebookSizes}

\* Solution.get_or_create(exercise=..., solver=..., defaults=...), then
\* matches.add when the row was created and solution.delete_instance() when
\* it was found
upload_exercise(table, exercise, user) ==
    LET found == {row \in table.rows :
                     row.exercise = exercise /\ row.solver = user}
    IN IF found = {}
       THEN [rows |-> table.rows \cup
                        {[id |-> table.created + 1, exercise |-> exercise,
                          solver |-> user]},
             created |-> table.created + 1]
       ELSE [rows |-> table.rows \ found, created |-> table.created]

\* for exercise_id, code in exercises: ...
RECURSIVE upload_exercises(_, _, _)
upload_exercises(table, exercises, user) ==
    IF exercises = <<>>
    THEN table
    ELSE upload_exercises(
            upload_exercise(table, Head(exercises), user), Tail(exercises), user)

upload(user, exercises) ==
    /\ upload_exercises(legacy, exercises, user).created <= MaxSolutions
    /\ legacy' = upload_exercises(legacy, exercises, user)
    /\ UNCHANGED <<notifications, sent, reads>>
    /\ UNCHANGED <<wpc, winstance, wold, fetched, run, set_state_call, reply, creating, session>>
    /\ UNCHANGED solVars

\* ---- the review-progress queries: Solution.left_in_exercise and
\* Solution.status
ArchivedExercises == {2}

\* the Exercise table: id and is_archived of each row
Exercise == [e \in Exercises |-> [id |-> e, is_archived |-> e \in ArchivedExercises]]

\* Case(Solution.state, ((Solution.STATES.DONE.name, 1),), 0)
one_if_is_checked(state) == IF state = DONE THEN 1 ELSE 0

\* fn.Count(id) and fn.Sum(expr) over the selected rows: Count of no row is 0,
\* Sum of no row is NULL
fn_Count(S, ids) == Cardinality(ids)

RECURSIVE SumOver(_, _)
SumOver(S, ids) ==
    IF ids = {} THEN 0
    ELSE LET id == CHOOSE i \in ids : TRUE
         IN one_if_is_checked(S[id].state) + SumOver(S, ids \ {id})

fn_Sum(S, ids) == [is_null |-> ids = {}, value |-> SumOver(S, ids)]

\* a filter that keeps the solutions of the exercise in every state
filter_exercise_every_state(S, exercise) ==
    {id \in SolutionIds(S) : S[id].exercise = exercise}

\* cls.filter(cls.exercise == exercise, active_solutions)
filter_exercise_active(S, exercise) ==
    {id \in SolutionIds(S) :
        S[id].exercise = exercise /\ S[id].state \in active_solutions}

\* int(x * 100 / y) for integers x >= 0 and y >= 1: true division, then
\* truncation toward zero
int_percent(x, y) == (x * 100) \div y

\* left_in_exercise(exercise): [raised, value]; None * 100 raises TypeError
\* when Sum is NULL, before the division is reached
left_in_exercise(S, exercise) ==
    LET response ==
            [submitted |-> fn_Count(S, filter_exercise_active(S, exercise)),
             checked |-> fn_Sum(S, filter_exercise_active(S, exercise))]
    IN IF response.checked.is_null
       THEN [raised |-> TRUE, value |-> 0]
       ELSE IF response.submitted = 0
       THEN [raised |-> TRUE, value |-> 0]
       ELSE [raised |-> FALSE,
             value |-> int_percent(response.checked.value, response.submitted)]

\* Exercise LEFT OUTER JOIN Solution ON Solution.exercise = Exercise.id: one
\* row per matching solution, and one row with a NULL solution for an
\* exercise that has none
join_by_exercise(S) ==
    {row \in [exercise : Exercises, solution : SolutionIds(S) \cup {None}] :
        IF row.solution = None
        THEN filter_exercise_every_state(S, row.exercise) = {}
        ELSE S[row.solution].exercise = row.exercise}

\* .where(Solution.state.in_(active_solutions)): NULL IN (...) is not true
where_active_solutions(S, rows) ==
    {row \in rows :
        row.solution # None /\ S[row.solution].state \in active_solutions}

\* .group_by(Exercise.subject, Exercise.id) with the selected fields
group_by_exercise(S, rows) ==
    {[id |-> e,
      is_archived |-> Exercise[e].is_archived,
      submitted |-> fn_Count(S, {row.solution : row \in {r \in rows : r.exercise = e}}),
      checked |-> fn_Sum(S, {row.solution : row \in {r \in rows : r.exercise = e}}).value] :
        e \in {row.exercise : row \in rows}}

\* .order_by(Exercise.id)
RECURSIVE order_by_id(_)
order_by_id(rows) ==
    IF rows = {} THEN <<>>
    ELSE LET first == CHOOSE row \in rows : \A other \in rows : row.id <= other.id
         IN <<first>> \o order_by_id(rows \ {first})

status(S) ==
    order_by_id(group_by_exercise(S, where_active_solutions(S, join_by_exercise(S))))

\* ---- the stores the queries are asked on: up to MaxStatusRows solutions of
\* different learners, of any exercise and in any state (set_state writes any
\* state on any row)
MaxStatusRows == 3

StatusStores ==
    UNION {[1..n -> Exercises \X SolutionState] : n \in 0..MaxStatusRows}

StatusStore(rows) ==
    [i \in DOMAIN rows |->
        [NewSolution(rows[i][1], i, i, i) EXCEPT !.state = rows[i][2]]]

InitStatus ==
    /\ \E rows \in StatusStores :
          /\ solutions = StatusStore(rows)
          /\ commentRows = [i \in DOMAIN rows |-> 0]
          /\ testRows = [i \in DOMAIN rows |-> <<>>]
    /\ pc = [r \in Reviewers |-> "idle"]
    /\ sel = [r \in Reviewers |-> None]
    /\ redirect = [r \in Reviewers |-> None]
    /\ InitNotifications

\* ---- the solution view of a manager asks left_in_exercise(exercise)
LeftInExercise(exercise) ==
    /\ reply' = [call |-> "left_in_exercise", exercise |-> exercise,
                 solver |-> None, json_data_str |-> None,
                 raised |-> left_in_exercise(solutions, exercise).raised,
                 value |-> left_in_exercise(solutions, exercise).value,
                 rows |-> <<>>]
    /\ UNCHANGED <<notifications, sent, reads>>
    /\ UNCHANGED <<wpc, winstance, wold, fetched, run, set_state_call, legacy, creating, session>>
    /\ UNCHANGED solVars

\* ---- GET /status renders Solution.status()
Status ==
    /\ reply' = [call |-> "status", exercise |-> None, solver |-> None,
                 json_data_str |-> None, raised |-> FALSE, value |-> 0,
                 rows |-> status(solutions)]
    /\ UNCHANGED <<notifications, sent, reads>>
    /\ UNCHANGED <<wpc, winstance, wold, fetched, run, set_state_call, legacy, creating, session>>
    /\ UNCHANGED solVars

\* ---- the upload view, POST /upload, for a file that holds one exercise
Contents == {1, 2}

\* a duplicate check that looks at the pair alone
solution_exists_any_content(S, exercise, solver, json_data_str) ==
    \E id \in SolutionIds(S) :
        S[id].exercise = exercise /\ S[id].solver = solver

\* Solution.solution_exists: SELECT ... WHERE exercise, solver and
\* json_data_str match, .exists(); rows in every state are looked at
solution_exists(S, exercise, solver, json_data_str) ==
    \E id \in SolutionIds(S) :
        /\ S[id].exercise = exercise
        /\ S[id].solver = solver
        /\ S[id].json_data_str = json_data_str

\* upload.new(user, file): AlreadyExists when solution_exists, otherwise
\* create_solution
upload_new(S, user, exercise, json_data_str, timestamp) ==
    IF solution_exists(S, exercise, user, json_data_str)
    THEN [raised |-> TRUE, solutions |-> S]
    ELSE [raised |-> FALSE,
          solutions |-> create_solution(S, exercise, user, json_data_str, timestamp)]

\* upload_page: fail(400, ...) on AlreadyExists, the matches otherwise
upload_page(user, exercise, json_data_str) ==
    /\ \/ Len(solutions) < MaxSolutions
       \/ solution_exists(solutions, exercise, user, json_data_str)
    /\ \E timestamp \in Timestamps(solutions) :
          LET done == upload_new(solutions, user, exercise, json_data_str, timestamp)
          IN /\ solutions' = done.solutions
             /\ commentRows' =
                   IF done.raised THEN commentRows ELSE Append(commentRows, 0)
             /\ testRows' = IF done.raised THEN testRows ELSE Append(testRows, <<>>)
             /\ reply' = [call |-> "upload_page", exercise |-> exercise,
                          solver |-> user, json_data_str |-> json_data_str,
                          raised |-> FALSE,
                          value |-> IF done.raised THEN 400 ELSE 200,
                          rows |-> <<>>]
    /\ UNCHANGED <<pc, sel, redirect>>
    /\ UNCHANGED <<notifications, sent, reads>>
    /\ UNCHANGED <<wpc, winstance, wold, fetched, run, set_state_call, legacy, creating, session>>

\* ---- a direct Solution.solution_exists call
SolutionExists(exercise, solver, json_data_str) ==
    /\ reply' = [call |-> "solution_exists", exercise |-> exercise,
                 solver |-> solver, json_data_str |-> json_data_str,
                 raised |-> FALSE,
                 value |-> IF solution_exists(
                                  solutions, exercise, solver, json_data_str)
                           THEN 1 ELSE 0,
                 rows |-> <<>>]
    /\ UNCHANGED <<notifications, sent, reads>>
    /\ UNCHANGED <<wpc, winstance, wold, fetched, run, set_state_call, legacy, creating, session>>
    /\ UNCHANGED solVars

\* ---- two selector calls on the same store contents, one after the other,
\* with nothing written in between: next_unchecked() for exercise_id = None,
\* next_unchecked_of(exercise_id) otherwise
NextUncheckedTwice(exercise_id) ==
    /\ \E first \in IF exercise_id = None THEN next_unchecked
                    ELSE next_unchecked_of(exercise_id),
          second \in IF exercise_id = None THEN next_unchecked
                     ELSE next_unchecked_of(exercise_id) :
          reply' = [call |-> "next_unchecked", exercise |-> exercise_id,
                    solver |-> None, json_data_str |-> None, raised |-> FALSE,
                    value |-> 0, rows |-> <<[id |-> first], [id |-> second]>>]
    /\ UNCHANGED <<notifications, sent, reads>>
    /\ UNCHANGED <<wpc, winstance, wold, fetched, run, set_state_call, legacy, creating, session>>
    /\ UNCHANGED solVars

\* ---- Solution.create_solution as the statements it sends to the store, for
\* uploads served by different workers; nothing wraps them in a transaction
\* first: instance = cls.create(...), the INSERT
CreateInsert(u, exercise, solver) ==
    /\ creating[u].pc = "idle"
    /\ Len(solutions) < MaxSolutions
    /\ \E timestamp \in Timestamps(solutions) :
          solutions' = Append(solutions,
                              NewSolution(exercise, solver,
                                          NewContent(solutions), timestamp))
    /\ commentRows' = Append(commentRows, 0)
    /\ testRows' = Append(testRows, <<>>)
    /\ creating' = [creating EXCEPT ![u] =
          [pc |-> "inserted", instance |-> Len(solutions) + 1,
           exercise |-> exercise, solver |-> solver, other_solutions |-> {}]]
    /\ UNCHANGED <<pc, sel, redirect>>
    /\ UNCHANGED <<notifications, sent, reads>>
    /\ UNCHANGED <<wpc, winstance, wold, fetched, run, set_state_call, legacy,
                   reply, session>>

\* second: the SELECT of other_solutions, run when the for loop starts
CreateSelect(u) ==
    /\ creating[u].pc = "inserted"
    /\ creating' = [creating EXCEPT ![u] =
          [@ EXCEPT !.pc = "selected",
                    !.other_solutions =
                        other_solutions(solutions, creating[u].exercise,
                                        creating[u].solver, creating[u].instance)]]
    /\ UNCHANGED <<notifications, sent, reads>>
    /\ UNCHANGED <<wpc, winstance, wold, fetched, run, set_state_call, legacy,
                   reply, session>>
    /\ UNCHANGED solVars

\* then: old_solution.set_state(OLD_SOLUTION) for the rows read, one UPDATE
\* each; the call returns when none is left
CreateSetOld(u) ==
    /\ creating[u].pc = "selected"
    /\ IF creating[u].other_solutions = {}
       THEN /\ creating' = [creating EXCEPT ![u] = NotCreating]
            /\ UNCHANGED solutions
       ELSE \E old_solution \in creating[u].other_solutions :
               /\ solutions' = set_state(solutions, old_solution, OLD_SOLUTION)
               /\ creating' = [creating EXCEPT ![u] =
                     [@ EXCEPT !.other_solutions = @ \ {old_solution}]]
    /\ UNCHANGED <<commentRows, testRows, pc, sel, redirect>>
    /\ UNCHANGED <<notifications, sent, reads>>
    /\ UNCHANGED <<wpc, winstance, wold, fetched, run, set_state_call, legacy,
                   reply, session>>

\* ---- the stores a reviewer finds when draining the queue: the solutions of
\* up to MaxSolutions uploads, each with no or one comment and with no or one
\* fatal test-result row; an upload's timestamp is that of the upload before
\* it or a later one
RECURSIVE Uploads(_)
Uploads(k) ==
    IF k = 0 THEN {<<>>}
    ELSE {create_solution(S, exercise, solver, NewContent(S), timestamp) :
            S \in {T \in Uploads(k - 1) : Len(T) = k - 1},
            exercise \in Exercises, solver \in Solvers,
            timestamp \in {k - 1, k} \ {0}}
         \cup Uploads(k - 1)

InitDrain ==
    /\ solutions \in Uploads(MaxSolutions)
    /\ commentRows \in [DOMAIN solutions -> {0, 1}]
    /\ testRows \in [DOMAIN solutions -> {<<>>, <<FATAL_TEST_NAME>>}]
    /\ pc = [r \in Reviewers |-> "idle"]
    /\ sel = [r \in Reviewers |-> None]
    /\ redirect = [r \in Reviewers |-> None]
    /\ InitNotifications

\* ---- the password-change form: ChangePasswordForm.validate_current_password
\* lms.lmsweb.config.INVALID_TRIES
INVALID_TRIES == 3

MaxValidations == 5

\* what is typed into current_password; user u's password is u
Passwords == {1, 2, 3}

\* werkzeug's generate_password_hash / check_password_hash: the hash carries
\* the method prefix and matches the password it was made from only
generate_password_hash(password) == <<"pbkdf2:sha256", password>>

check_password_hash(pwhash, password) ==
    pwhash = generate_password_hash(password)

\* the User row's password column, hashed by the pre_save hook
UserPassword(user) == generate_password_hash(user)

\* User.is_password_valid
is_password_valid(user, password) ==
    check_password_hash(UserPassword(user), password)

\* a validator that counts the tries made during the lockout as well
validate_current_password_counting(s, user, data) ==
    IF ~is_password_valid(user, data) \/ s.invalid_tries >= INVALID_TRIES
    THEN [s EXCEPT !.invalid_tries = @ + 1, !.rejected = TRUE]
    ELSE [s EXCEPT !.rejected = FALSE]

\* validate_current_password(field): the session after the call, rejected
\* when it raised ValidationError
validate_current_password(s, user, data) ==
    IF s.invalid_tries >= INVALID_TRIES
    THEN [s EXCEPT !.rejected = TRUE]
    ELSE IF ~is_password_valid(user, data)
    THEN [s EXCEPT !.invalid_tries = @ + 1, !.rejected = TRUE]
    ELSE [s EXCEPT !.rejected = FALSE]

\* ---- one validation of the form's current_password field for a user
ValidateCurrentPassword(user, data) ==
    /\ session[user].validated < MaxValidations
    /\ session' = [session EXCEPT ![user] =
          [validate_current_password(session[user], user, data)
              EXCEPT !.validated = @ + 1, !.data = data]]
    /\ UNCHANGED <<notifications, sent, reads>>
    /\ UNCHANGED <<wpc, winstance, wold, fetched, run, set_state_call, legacy,
                   reply, creating>>
    /\ UNCHANGED solVars

Init == InitSolutions /\ InitNotifications

Next ==
    \/ \E exercise \in UploadedExercises, solver \in UploadingSolvers :
          Upload(exercise, solver)
    \/ \E r \in Reviewers, exercise_id \in Exercises \cup {None} :
          StartCheckingView(r, exercise_id)
    \/ \E r \in Reviewers, id \in 1..MaxSolutions : DoneCheckingView(r, id)

\* the state machine: every request is served whole, one at a time
Spec == Init /\ [][Next]_vars

NextQueue ==
    \/ \E exercise \in UploadedExercises, solver \in UploadingSolvers :
          Upload(exercise, solver)
    \/ \E id \in 1..MaxSolutions : CreateComment(id)
    \/ \E id \in 1..MaxSolutions :
          create_execution_result(id, FATAL_TEST_NAME)
    \/ \E exercise_id \in Exercises \cup {None} :
          StartCheckingView(1, exercise_id)

\* the review queue: uploads, comments, automated-check results and one
\* reviewer draining the queue, each request served whole
SpecQueue == Init /\ [][NextQueue]_vars

NextConc ==
    \/ \E exercise \in UploadedExercises, solver \in UploadingSolvers :
          Upload(exercise, solver)
    \/ \E r \in Reviewers, exercise_id \in Exercises \cup {None} :
          CheckSelect(r, exercise_id)
    \/ \E r \in Reviewers : CheckStart(r)
    \/ \E r \in Reviewers, id \in 1..MaxSolutions : DoneCheckingView(r, id)

\* reviewers' /check requests interleave at the store round trips
SpecConc == Init /\ [][NextConc]_vars

NextNotif ==
    \/ \E user \in Solvers : send(user)
    \/ \E n \in notifications : read(n)

\* the notification store: send and read calls made one at a time
SpecNotif == Init /\ [][NextNotif]_vars

NextOverlap ==
    \/ \E w \in Writers, user \in Solvers : SendCreate(w, user)
    \/ \E w \in Writers : HookSelect(w)
    \/ \E w \in Writers : HookDelete(w)
    \/ \E user \in Solvers : Fetch(user)

\* the notification store under sends that overlap, started from a full store
SpecOverlap == InitOverlap /\ [][NextOverlap]_vars

NextSetState ==
    \/ /\ set_state_call = NoCall
       /\ \/ \E exercise \in UploadedExercises, solver \in UploadingSolvers :
                Upload(exercise, solver)
          \/ \E r \in Reviewers, exercise_id \in Exercises \cup {None} :
                StartCheckingView(r, exercise_id)
          \/ \E r \in Reviewers, id \in 1..MaxSolutions : DoneCheckingView(r, id)
    \/ /\ set_state_call = NoCall
       /\ \E id \in 1..MaxSolutions + 1, new_state \in SolutionState :
             SetState(id, new_state)

\* one direct set_state call on a store the handlers have left
SpecSetState == Init /\ [][NextSetState]_vars

NextUploads ==
    \/ \E exercise \in UploadedExercises, solver \in UploadingSolvers :
          Upload(exercise, solver)
    \/ \E user \in Solvers, exercises \in Notebooks : upload(user, exercises)

\* submissions through both upload views, each request served whole
SpecUploads == Init /\ [][NextUploads]_vars

NextStatus ==
    \/ \E exercise \in Exercises : LeftInExercise(exercise)
    \/ Status

\* the review-progress queries, asked on every store of the bound
SpecStatus == InitStatus /\ [][NextStatus]_vars

NextUploadPage ==
    \/ \E user \in UploadingSolvers, exercise \in UploadedExercises,
          json_data_str \in Contents :
          upload_page(user, exercise, json_data_str)
    \/ \E exercise \in Exercises, solver \in Solvers, json_data_str \in Contents :
          SolutionExists(exercise, solver, json_data_str)

\* uploads with the duplicate check, and direct solution_exists calls
SpecUploadPage == Init /\ [][NextUploadPage]_vars

NextSelector ==
    \/ \E exercise \in UploadedExercises, solver \in UploadingSolvers :
          Upload(exercise, solver)
    \/ \E id \in 1..MaxSolutions : CreateComment(id)
    \/ \E exercise_id \in Exercises \cup {None} : NextUncheckedTwice(exercise_id)

\* the selector asked twice in a row on the stores uploads and comments build
SpecSelector == Init /\ [][NextSelector]_vars

NextRead == \E n \in notifications : read(n)

\* reads of the notifications of a store in which user 1 is at the cap
SpecRead == InitRead /\ [][NextRead]_vars

NextCreate ==
    \/ \E u \in Uploaders, exercise \in UploadedExercises,
          solver \in UploadingSolvers : CreateInsert(u, exercise, solver)
    \/ \E u \in Uploaders : CreateSelect(u)
    \/ \E u \in Uploaders : CreateSetOld(u)

\* uploads that overlap: create_solution calls interleave at their statements
SpecCreate == Init /\ [][NextCreate]_vars

NextRetention ==
    \/ \E w \in Writers, user \in Solvers : SendCreate(w, user)
    \/ \E w \in Writers : HookSelect(w)
    \/ \E w \in Writers : HookDelete(w)
    \/ \E n \in notifications : read(n)

\* user 1 at the cap, user 2 with up to MaxOtherRows, nothing read yet
InitRetention == InitRead /\ \A n \in notifications : ~n.viewed

\* sends and reads for two users, started with user 1 at the cap
SpecRetention == InitRetention /\ [][NextRetention]_vars

NextDrain == \E exercise_id \in Exercises \cup {None} : StartCheckingView(1, exercise_id)

\* one reviewer asks for the next solution again and again and nothing else
\* is written; a request that is made is served
SpecDrain == InitDrain /\ [][NextDrain]_vars /\ WF_vars(NextDrain)

NextPassword ==
    \E user \in Solvers, data \in Passwords : ValidateCurrentPassword(user, data)

\* validations of the password-change form in the sessions of two users
SpecPassword == Init /\ [][NextPassword]_vars

NextIngest ==
    \/ \E id \in 1..MaxSolutions, file \in FileContents :
          run_check(id, FALSE, file)
    \/ \E id \in 1..MaxSolutions : run_check(id, TRUE, NoResults)

\* one run of the automated checker on a store that uploads and earlier runs
\* have left
SpecIngest == InitIngest /\ [][NextIngest]_vars

\* ======================================================================
\* Properties
\* ======================================================================

Scopes == Exercises \cup {None}

\* the values the selector may return for a scope (None: next_unchecked)
Selector(exercise_id) ==
    IF exercise_id = None THEN next_unchecked ELSE next_unchecked_of(exercise_id)

SamePair(a, b) ==
    /\ solutions[a].exercise = solutions[b].exercise
    /\ solutions[a].solver = solutions[b].solver

\* the CREATED solutions in a scope, stated from the table
CreatedIn(exercise_id) ==
    {id \in DOMAIN solutions :
        /\ solutions[id].state = CREATED
        /\ (exercise_id # None => solutions[id].exercise = exercise_id)}

\* C1: when two reviewers run the start-checking workflow against the same
\* CREATED solution, only one of the two start_checking calls reports success
\* for it: no two reviewers are redirected to the same solution.
C1_ExactlyOneReviewerWins ==
    \A r1 \in Reviewers, r2 \in Reviewers :
        (r1 # r2 /\ redirect[r1] # None) => redirect[r2] # redirect[r1]

\* C2: DONE and OLD_SOLUTION are terminal: a solution in one of them never
\* changes state again.
C2_TerminalStatesStay ==
    [][\A id \in DOMAIN solutions :
          solutions[id].state \in {DONE, OLD_SOLUTION}
              => solutions'[id].state = solutions[id].state]_vars

\* C3: each completed create_solution call for a pair leaves the pair with one
\* more solution, exactly one of them active (CREATED, IN_CHECKING or DONE),
\* which is the one the call created; all the others are OLD_SOLUTION.
C3_OneActivePerPairAfterCreate ==
    [][Len(solutions') > Len(solutions) =>
          LET new == Len(solutions')
              pair == {id \in DOMAIN solutions' :
                          /\ solutions'[id].exercise = solutions'[new].exercise
                          /\ solutions'[id].solver = solutions'[new].solver}
              before == {id \in DOMAIN solutions :
                          /\ solutions[id].exercise = solutions'[new].exercise
                          /\ solutions[id].solver = solutions'[new].solver}
          IN /\ new = Len(solutions) + 1
             /\ Cardinality(pair) = Cardinality(before) + 1
             /\ {id \in pair : solutions'[id].state \in active_solutions} = {new}
             /\ \A id \in pair \ {new} : solutions'[id].state = OLD_SOLUTION]_vars

C3_Witness ==
    \E old \in DOMAIN solutions, new \in DOMAIN solutions :
        /\ old < new
        /\ new = Len(solutions)
        /\ SamePair(old, new)
        /\ solutions[old].checker # None
        /\ solutions[old].state = OLD_SOLUTION
        /\ solutions[new].state = CREATED

\* C4: with no create_solution call in progress, the selector never returns a
\* solution for which a more recently created solution of the same
\* (exercise, learner) pair exists.
C4_SelectorReturnsLatestVersion ==
    \A scope \in Scopes : \A id \in Selector(scope) \ {None} :
        ~ \E newer \in DOMAIN solutions : newer > id /\ SamePair(newer, id)

C4_Witness ==
    \E old \in DOMAIN solutions, new \in DOMAIN solutions :
        /\ old < new
        /\ SamePair(old, new)
        /\ commentRows[old] = 0
        /\ commentRows[new] > 0
        /\ new \in Selector(None)

\* C5: the selector returns a solution only if its stored state is CREATED
\* and, when scoped, it belongs to the requested exercise; it returns None
\* exactly when no such solution exists.
C5_SelectorReturnsCreatedOrNone ==
    \A scope \in Scopes :
        LET created == CreatedIn(scope)
        IN \A id \in Selector(scope) :
              /\ id # None => id \in created
              /\ id = None <=> created = {}

C5_Witness ==
    \E scope \in Exercises :
        /\ Selector(scope) = {None}
        /\ \E id \in DOMAIN solutions :
              solutions[id].exercise = scope /\ solutions[id].state = IN_CHECKING
        /\ \E other \in Exercises \ {scope} : Selector(other) # {None}

\* the claimed ranking: fewer Comment rows, then fewer test result rows, then
\* the earlier submission timestamp
RankedBefore(a, b) ==
    \/ commentRows[a] < commentRows[b]
    \/ /\ commentRows[a] = commentRows[b]
       /\ Len(testRows[a]) < Len(testRows[b])
    \/ /\ commentRows[a] = commentRows[b]
       /\ Len(testRows[a]) = Len(testRows[b])
       /\ solutions[a].submission_timestamp < solutions[b].submission_timestamp

\* C6: the returned solution is a lexicographic minimum, over the CREATED
\* solutions of the scope, of (true number of Comment rows, true number of
\* test result rows, submission timestamp).
C6_SelectorReturnsRankMinimum ==
    \A scope \in Scopes : \A id \in Selector(scope) \ {None} :
        \A other \in CreatedIn(scope) : ~RankedBefore(other, id)

\* C7: if the queue holds a CREATED solution with zero comments, the selector
\* never returns one that has comments, whatever the failure counts and
\* timestamps are.
C7_UncommentedFirst ==
    \A scope \in Scopes :
        (\E id \in CreatedIn(scope) : commentRows[id] = 0)
            => \A id \in Selector(scope) : id # None /\ commentRows[id] = 0

C7_Witness ==
    \E clean \in CreatedIn(None), noted \in CreatedIn(None) :
        /\ commentRows[clean] = 0
        /\ commentRows[noted] > 0
        /\ Len(testRows[clean]) > Len(testRows[noted])
        /\ solutions[clean].submission_timestamp
              > solutions[noted].submission_timestamp
        /\ Selector(None) = {clean}

\* the CREATED solutions of a scope that are minimal on the comment count and
\* minimal on the failure count
MinimalOnBoth(scope) ==
    LET created == CreatedIn(scope)
    IN {id \in created :
          \A other \in created :
              /\ commentRows[id] <= commentRows[other]
              /\ Len(testRows[id]) <= Len(testRows[other])}

\* C8: among the CREATED solutions that have the same comment count and the
\* same failure count and are minimal on both, the selector returns one with
\* the earliest submission timestamp.
C8_EarliestAmongTies ==
    \A scope \in Scopes :
        LET minimal == MinimalOnBoth(scope)
        IN minimal # {}
              => \A id \in Selector(scope) :
                    /\ id \in minimal
                    /\ \A other \in minimal :
                          solutions[id].submission_timestamp
                              <= solutions[other].submission_timestamp

C8_Witness ==
    \E first \in DOMAIN solutions, second \in DOMAIN solutions :
        /\ {first, second} \subseteq MinimalOnBoth(None)
        /\ commentRows[first] > 0
        /\ Len(testRows[first]) > 0
        /\ solutions[first].submission_timestamp
              < solutions[second].submission_timestamp
        /\ Selector(None) = {first}

\* ids of the notifications ever sent to a user, and the MAX_PER_USER most
\* recently created of them
SentTo(user) == {id \in DOMAIN sent : sent[id].user = user}

MostRecent(user) ==
    {id \in SentTo(user) :
        Cardinality({later \in SentTo(user) : later > id}) < MAX_PER_USER}

StoredIds(user) == {n.id : n \in OfUser(notifications, user)}

\* C9: after any sequence of completed send and read calls made one at a
\* time, every user has at most MAX_PER_USER notification rows.
C9_AtMostMaxPerUser ==
    \A user \in Solvers :
        Cardinality(OfUser(notifications, user)) <= MAX_PER_USER

C9_Witness ==
    \E user \in Solvers :
        /\ Cardinality(SentTo(user)) > MAX_PER_USER
        /\ Cardinality(OfUser(notifications, user)) = MAX_PER_USER
        /\ reads > 0

\* C10: after k > MAX_PER_USER sends to one user, the rows that remain for
\* that user are exactly the MAX_PER_USER most recently created ones; the
\* k - MAX_PER_USER oldest are deleted.
C10_NewestRemain ==
    \A user \in Solvers :
        Cardinality(SentTo(user)) > MAX_PER_USER
            => /\ StoredIds(user) = MostRecent(user)
               /\ Cardinality(OfUser(notifications, user)) = MAX_PER_USER

C10_Witness ==
    \E user \in Solvers :
        /\ Cardinality(SentTo(user)) = MAX_PER_USER + 1
        /\ \A id \in SentTo(user) :
              id \in StoredIds(user) <=>
                  Cardinality({earlier \in SentTo(user) : earlier < id}) >= 1

\* ---- C11: fetch(user) returns only notifications whose recipient is that
\* user, at most MAX_PER_USER of them, the most recently created ones, newest
\* first, and leaves the store as it was
C11_FetchNewestOfUser ==
    [][\A user \in Solvers :
          Fetch(user) =>
             LET q == fetched'
                 rows == {q[i] : i \in 1..Len(q)}
                 mine == OfUser(notifications, user)
             IN /\ notifications' = notifications
                /\ rows \subseteq mine
                /\ Cardinality(rows) = Len(q)
                /\ Len(q) <= MAX_PER_USER
                /\ Len(q) = IF Cardinality(mine) > MAX_PER_USER
                            THEN MAX_PER_USER
                            ELSE Cardinality(mine)
                /\ \A i, j \in 1..Len(q) : i < j => q[i].created >= q[j].created
                /\ \A n \in mine \ rows, m \in rows : n.created <= m.created]_vars

\* a fetch has just returned MAX_PER_USER rows of a user who holds more, while
\* the store also holds rows of another user
C11_Witness ==
    /\ Len(fetched) = MAX_PER_USER
    /\ Cardinality(OfUser(notifications, fetched[1].user)) > MAX_PER_USER
    /\ \E n \in notifications : n.user # fetched[1].user

AllSendsCompleted == \A w \in Writers : wpc[w] = "idle"

\* ---- C12: with sends to one user overlapping (insert, then a separate
\* select-and-delete trim), once every started send has completed the user
\* holds at most MAX_PER_USER rows
C12_TrimmedOnceSendsComplete ==
    AllSendsCompleted =>
        \A user \in Solvers :
            Cardinality(OfUser(notifications, user)) <= MAX_PER_USER

\* two sends to one user read the clock in the same instant (so they
\* overlapped), every send has completed and the user's rows were trimmed
C12_Witness ==
    /\ AllSendsCompleted
    /\ \E i, j \in 1..Len(sent) :
          /\ i < j
          /\ sent[i].user = sent[j].user
          /\ sent[i].created = sent[j].created
          /\ Cardinality(OfUser(notifications, sent[i].user)) = MAX_PER_USER
          /\ Cardinality(OfUser(notifications, sent[i].user))
                < Cardinality({k \in 1..Len(sent) : sent[k].user = sent[i].user})

\* while sends are in flight a user may hold more than MAX_PER_USER rows
OverLimitInFlight ==
    \E user \in Solvers :
        Cardinality(OfUser(notifications, user)) > MAX_PER_USER + 1

\* ---- what a run_check step has done, read off the step: the solution it
\* ran on, the rows it added to it and the notifications it sent
Checked == run'.call.solution

Ingested ==
    /\ run' # NoRun
    /\ solutions[Checked].exercise \in ExercisesWithTest

RowsKept ==
    /\ \A id \in DOMAIN testRows : id # Checked => testRows'[id] = testRows[id]
    /\ Len(testRows'[Checked]) >= Len(testRows[Checked])
    /\ SubSeq(testRows'[Checked], 1, Len(testRows[Checked])) = testRows[Checked]

NewRows ==
    SubSeq(testRows'[Checked], Len(testRows[Checked]) + 1, Len(testRows'[Checked]))

NewSent == SubSeq(sent', Len(sent) + 1, Len(sent'))

OneFatalRowOneNotification ==
    /\ ~run'.raised
    /\ RowsKept
    /\ NewRows = <<FATAL_TEST_NAME>>
    /\ Len(NewSent) = 1
    /\ NewSent[1].user = solutions[Checked].solver
    /\ NewSent[1] \in notifications'

\* the report is empty, absent or holds no test case at all
NothingRan(call) ==
    \/ call.kind \in {"None", "empty"}
    \/ call.kind = "xml" /\ call.cases = 0

\* ---- C13: when the report is empty, absent or contains no test case,
\* ingestion creates exactly one TestExecutionResult, under fatal_test_failure,
\* no per-case one, and sends exactly one notification, to the solver
C13_FatalPath ==
    [][(Ingested /\ NothingRan(run'.call)) => OneFatalRowOneNotification]_vars

\* a report with suites and no case has been ingested for a solution that had
\* a row from an earlier run, and the fatal row came after it
C13_Witness ==
    /\ run.call.kind = "xml"
    /\ run.call.suites > 0
    /\ run.call.cases = 0
    /\ Len(testRows[run.call.solution]) = 2
    /\ testRows[run.call.solution][2] = FATAL_TEST_NAME
    /\ \E n \in notifications :
          n.user = solutions[run.call.solution].solver /\ n.id = Len(sent)

\* ---- C14: when at least one case ran and f >= 1 cases failed over all
\* suites, ingestion creates exactly f TestExecutionResult rows, one per
\* failing case and named after it, and sends exactly one notification, to the
\* solver
C14_NormalPath ==
    [][(Ingested /\ run'.call.kind = "xml" /\ run'.call.failures >= 1) =>
          /\ ~run'.raised
          /\ RowsKept
          /\ Len(NewRows) = run'.call.failures
          /\ {NewRows[i] : i \in 1..Len(NewRows)} = run'.call.failed
          /\ Len(NewSent) = 1
          /\ NewSent[1].user = solutions[Checked].solver]_vars

\* a report of two suites with passed cases and two failing ones, one in each
\* suite, has been ingested
C14_Witness ==
    /\ run.call.suites = 2
    /\ run.call.failures = 2
    /\ run.call.cases > 2
    /\ {CaseName(1, 1), CaseName(2, 2)} \subseteq run.call.failed
    /\ Len(testRows[run.call.solution]) >= 2

\* ---- C15: when at least one case ran and no case failed, ingestion
\* creates no TestExecutionResult row and sends no notification
C15_CleanPassIsSilent ==
    [][(Ingested /\ run'.call.cases >= 1 /\ run'.call.failures = 0) =>
          /\ ~run'.raised
          /\ testRows' = testRows
          /\ sent' = sent
          /\ notifications' = notifications]_vars

\* a report of two suites in which every case passed has been ingested
C15_Witness ==
    /\ run.call.solution # None
    /\ solutions[run.call.solution].exercise \in ExercisesWithTest
    /\ run.call.suites = 2
    /\ run.call.cases = 2 * MaxCases
    /\ run.call.failures = 0
    /\ ~run.raised

\* ---- C16: ingestion of a report that is not empty and does not parse
\* never raises to the caller: it records one fatal TestExecutionResult and
\* one notification and returns normally
C16_MalformedReportHandled ==
    [][(Ingested /\ run'.call.kind = "malformed") =>
          OneFatalRowOneNotification]_vars

\* ---- C17: when invoking the external checker raises, run_check returns
\* normally and writes nothing: no TestExecutionResult row, no notification
C17_ExecutorFailureWritesNothing ==
    [][(Ingested /\ run'.call.executor_raised) =>
          /\ ~run'.raised
          /\ testRows' = testRows
          /\ sent' = sent
          /\ notifications' = notifications]_vars

\* the rows of the Solution table a step has changed
ChangedRows == {id \in DOMAIN solutions : solutions'[id] # solutions[id]}

\* ---- C18: set_state(solution, new_state) changes at most the one row with
\* the solution's identifier and returns true if and only if exactly one row
\* was updated; when it returns false the store is unchanged
C18_SetStateOneRow ==
    [][\A id \in 1..MaxSolutions + 1, new_state \in SolutionState :
          SetState(id, new_state) =>
             /\ DOMAIN solutions' = DOMAIN solutions
             /\ ChangedRows \subseteq {id}
             /\ set_state_call'.updated <=>
                   /\ id \in DOMAIN solutions
                   /\ solutions'[id] = [solutions[id] EXCEPT !.state = new_state]
             /\ ~set_state_call'.updated => solutions' = solutions]_vars

\* set_state has returned true on a table of several rows where it changed a
\* state
C18_Witness ==
    /\ set_state_call.updated
    /\ Len(solutions) = MaxSolutions
    /\ solutions[set_state_call.id].state = set_state_call.new_state
    /\ \E id \in DOMAIN solutions :
          id # set_state_call.id /\ solutions[id].state # set_state_call.new_state

\* set_state has returned false for a row the table does not hold
C18_WitnessNoRow ==
    /\ set_state_call.id # None
    /\ ~set_state_call.updated
    /\ solutions # <<>>

\* ---- C19: a successful done_checking(solution, reviewer) on a solution in
\* CREATED or IN_CHECKING leaves it DONE with that reviewer as checker, and the
\* two are written by one update: no step leaves a solution that has just
\* become DONE with another checker value
C19_DoneWithChecker ==
    [][/\ \A r \in Reviewers, id \in DOMAIN solutions :
             (DoneCheckingView(r, id)
                 /\ solutions[id].state \in {CREATED, IN_CHECKING})
                => /\ solutions'[id].state = DONE
                   /\ solutions'[id].checker = r
       /\ \A id \in DOMAIN solutions :
             (solutions[id].state # DONE /\ solutions'[id].state = DONE)
                => \E r \in Reviewers :
                      /\ DoneCheckingView(r, id)
                      /\ solutions'[id].checker = r]_vars

\* reviewer 2 has finished a solution while another one is being checked
C19_Witness ==
    \E id \in DOMAIN solutions, other \in DOMAIN solutions :
        /\ solutions[id].state = DONE
        /\ solutions[id].checker = 2
        /\ solutions[other].state = IN_CHECKING
        /\ solutions[other].checker = None

\* ---- C20: a solution enters OLD_SOLUTION only in a create_solution step
\* for its own (exercise, learner) pair; no reviewer action (start_checking,
\* done_checking) sets a solution to OLD_SOLUTION
C20_OldOnlyByCreateSolution ==
    [][\A id \in DOMAIN solutions :
          (solutions[id].state # OLD_SOLUTION
              /\ solutions'[id].state = OLD_SOLUTION)
             => /\ Len(solutions') = Len(solutions) + 1
                /\ solutions'[Len(solutions')].state = CREATED
                /\ solutions'[Len(solutions')].exercise = solutions[id].exercise
                /\ solutions'[Len(solutions')].solver = solutions[id].solver
                /\ UNCHANGED <<pc, sel, redirect>>]_vars

\* a solution a reviewer had finished has been superseded by its learner's
\* next upload, and a reviewer has opened the new one
C20_Witness ==
    \E old \in DOMAIN solutions, new \in DOMAIN solutions :
        /\ old < new
        /\ solutions[old].state = OLD_SOLUTION
        /\ solutions[old].checker # None
        /\ SamePair(old, new)
        /\ solutions[new].state = IN_CHECKING

\* ---- C21: every stored solution has a grade in [0,100] and a state that is
\* one of CREATED, IN_CHECKING, DONE, OLD_SOLUTION; a newly created solution
\* has grade 0 and state CREATED
C21_GradeAndStateInRange ==
    [][/\ \A id \in DOMAIN solutions' :
             /\ solutions'[id].grade \in 0..100
             /\ solutions'[id].state \in SolutionState
       /\ Len(solutions') > Len(solutions)
             => /\ Len(solutions') = Len(solutions) + 1
                /\ solutions'[Len(solutions')].grade = 0
                /\ solutions'[Len(solutions')].state = CREATED]_vars

\* the table holds a superseded solution and a finished one
C21_Witness ==
    /\ Len(solutions) = MaxSolutions
    /\ \E id \in DOMAIN solutions : solutions[id].state = OLD_SOLUTION
    /\ \E id \in DOMAIN solutions : solutions[id].state = DONE

\* the identifiers a store holds, by table
StoredSolutions(table, older) ==
    {<<"lms", id>> : id \in DOMAIN table}
        \cup {<<"lmsweb", row.id>> : row \in older.rows}

\* ---- C22: solutions are never deleted: across submissions (resubmission
\* for a pair that already has a solution included) the set of stored
\* solution identifiers only grows, and a solution's exercise and solver never
\* change
C22_SolutionsNeverDeleted ==
    [][/\ StoredSolutions(solutions, legacy)
             \subseteq StoredSolutions(solutions', legacy')
       /\ \A id \in DOMAIN solutions :
             /\ solutions'[id].exercise = solutions[id].exercise
             /\ solutions'[id].solver = solutions[id].solver
       /\ \A row \in legacy.rows, now \in legacy'.rows :
             row.id = now.id => row = now]_vars

\* the solutions of an exercise that count as submitted and as checked
Submitted(exercise) ==
    {id \in DOMAIN solutions :
        /\ solutions[id].exercise = exercise
        /\ solutions[id].state \in {CREATED, IN_CHECKING, DONE}}

CheckedOf(exercise) == {id \in Submitted(exercise) : solutions[id].state = DONE}

AskedLeft(exercise) ==
    reply.call = "left_in_exercise" /\ reply.exercise = exercise

\* ---- C23: left_in_exercise on an exercise with s >= 1 active solutions, c of
\* them DONE, returns floor(c * 100 / s), an integer of 0..100; OLD_SOLUTION
\* rows count in neither s nor c
C23_PercentChecked ==
    \A exercise \in Exercises :
        AskedLeft(exercise) /\ Cardinality(Submitted(exercise)) >= 1
            => /\ ~reply.raised
               /\ reply.value \in 0..100
               /\ reply.value * Cardinality(Submitted(exercise))
                     <= Cardinality(CheckedOf(exercise)) * 100
               /\ (reply.value + 1) * Cardinality(Submitted(exercise))
                     > Cardinality(CheckedOf(exercise)) * 100

C23_Witness ==
    \E exercise \in Exercises :
        /\ AskedLeft(exercise)
        /\ Cardinality(Submitted(exercise)) = 3
        /\ Cardinality(CheckedOf(exercise)) = 2
        /\ reply.value = 66

\* ---- C24: left_in_exercise on an exercise with no active solution (none
\* submitted, or every one of them OLD_SOLUTION) returns a value and does not
\* raise
C24_NoActiveSolutionReturns ==
    \A exercise \in Exercises :
        AskedLeft(exercise) /\ Submitted(exercise) = {} => ~reply.raised

RowsOf(exercise) ==
    {i \in DOMAIN reply.rows : reply.rows[i].id = exercise}

\* ---- C25: status() yields one row for each non-archived exercise and none
\* for an archived one, with submitted = the exercise's solutions in CREATED,
\* IN_CHECKING or DONE and checked = those in DONE, 0 <= checked <= submitted
C25_StatusRows ==
    reply.call = "status"
        => \A exercise \in Exercises :
              IF exercise \in ArchivedExercises
              THEN RowsOf(exercise) = {}
              ELSE /\ Cardinality(RowsOf(exercise)) = 1
                   /\ \A i \in RowsOf(exercise) :
                         /\ reply.rows[i].submitted
                               = Cardinality(Submitted(exercise))
                         /\ reply.rows[i].checked
                               = Cardinality(CheckedOf(exercise))
                         /\ 0 <= reply.rows[i].checked
                         /\ reply.rows[i].checked <= reply.rows[i].submitted

\* the stored solutions of the pair and content the last request named
SameContent(S) ==
    {id \in DOMAIN S :
        /\ S[id].exercise = reply'.exercise
        /\ S[id].solver = reply'.solver
        /\ S[id].json_data_str = reply'.json_data_str}

C27_TestRowsAppendOnly ==
    [][/\ DOMAIN testRows \subseteq DOMAIN testRows'
       /\ \A id \in DOMAIN testRows :
             /\ Len(testRows'[id]) >= Len(testRows[id])
             /\ SubSeq(testRows'[id], 1, Len(testRows[id])) = testRows[id]]_vars

\* a second report with a failing case has been ingested for a solution whose
\* first report had left a row of another test
C27_Witness ==
    /\ run.call.solution # None
    /\ run.call.failures = 1
    /\ Len(testRows[run.call.solution]) = 2
    /\ testRows[run.call.solution][1] = CaseName(1, 1)
    /\ testRows[run.call.solution][2] = CaseName(2, 1)

\* ---- C28: prioritization is deterministic: two runs of the selector on
\* identical store contents return the same solution, also when several
\* CREATED solutions tie on comment count, failure count and submission
\* timestamp
C28_SelectorDeterministic ==
    reply.call = "next_unchecked" => reply.rows[1].id = reply.rows[2].id

Rank(state) == IF state = CREATED THEN 1 ELSE IF state = IN_CHECKING THEN 2 ELSE 3

\* ---- C29: state transitions are monotonic: no operation sets a solution
\* back to CREATED once it has left CREATED, and no solution moves from DONE
\* or IN_CHECKING to an earlier state of the order CREATED < IN_CHECKING < DONE
C29_MonotonicTransitions ==
    [][\A id \in DOMAIN solutions :
          /\ solutions[id].state # CREATED => solutions'[id].state # CREATED
          /\ (/\ solutions[id].state \in {IN_CHECKING, DONE}
              /\ solutions'[id].state \in {CREATED, IN_CHECKING, DONE})
                => Rank(solutions'[id].state) >= Rank(solutions[id].state)]_vars

\* ---- C30: ingestion of automated-check results, whatever the branch,
\* leaves the Solution row unchanged (state, grade, checker, exercise,
\* solver): a CREATED solution stays CREATED and stays in the review queue
C30_IngestionKeepsSolution ==
    [][run' # NoRun =>
          /\ solutions' = solutions
          /\ solutions[run'.call.solution].state = CREATED
                => /\ solutions'[run'.call.solution].state = CREATED
                   /\ run'.call.solution \in base_next_unchecked(None)']_vars

\* the checker could not be invoked for a CREATED solution: the fatal row has
\* been written and the solution is still CREATED
C30_Witness ==
    /\ run.call.solution # None
    /\ run.call.executor_raised
    /\ solutions[run.call.solution].exercise \in ExercisesWithTest
    /\ solutions[run.call.solution].state = CREATED
    /\ testRows[run.call.solution][Len(testRows[run.call.solution])]
          = FATAL_TEST_NAME

\* the row of a notification id in a store
RowOf(rows, id) == CHOOSE n \in rows : n.id = id

\* ---- C31: read(notification) sets its viewed flag and persists it, is
\* idempotent (a second read leaves the same state), and changes nothing
\* else: recipient, message, kind, related id and creation time of the row are
\* unchanged and, the user being within MAX_PER_USER, no row of any user is
\* created or deleted
C31_ReadSetsViewedOnly ==
    [][reads' = reads + 1 =>
          /\ {n.id : n \in notifications'} = {n.id : n \in notifications}
          /\ Cardinality(notifications') = Cardinality(notifications)
          /\ \E id \in {n.id : n \in notifications} :
                /\ RowOf(notifications', id)
                      = [RowOf(notifications, id) EXCEPT !.viewed = TRUE]
                /\ \A n \in notifications : n.id # id => n \in notifications'
                /\ RowOf(notifications, id).viewed
                      => notifications' = notifications
                /\ read_saved(notifications', RowOf(notifications', id))
                      = {notifications'}]_vars

\* a notification of the user at the cap has been read, the earlier read of
\* another row is still in place, and all rows are still there
C31_Witness ==
    /\ reads = MaxReads
    /\ Cardinality(OfUser(notifications, 1)) = MAX_PER_USER
    /\ Cardinality({n \in notifications : n.viewed}) = 2
    /\ \E n \in OfUser(notifications, 1) : n.viewed

NoCreateInProgress == \A u \in Uploaders : creating[u].pc = "idle"

ActiveOfPair(exercise, solver) ==
    {id \in DOMAIN solutions :
        /\ solutions[id].exercise = exercise
        /\ solutions[id].solver = solver
        /\ solutions[id].state \in {CREATED, IN_CHECKING, DONE}}

\* ---- C32: after two create_solution calls for the same (exercise, learner)
\* pair that overlap in time have both completed, at least one solution of
\* the pair is in an active state: the pair is never left with every solution
\* in OLD_SOLUTION
C32_OverlappingCreatesKeepOneActive ==
    NoCreateInProgress
        => \A id \in DOMAIN solutions :
              ActiveOfPair(solutions[id].exercise, solutions[id].solver) # {}

\* ---- C33: under any interleaving of resubmission with reviewer actions on
\* the same (exercise, learner) pair, whenever no create_solution is in
\* progress the pair has at most one solution in CREATED, IN_CHECKING or DONE
C33_OneActivePerPairUnderReview ==
    NoCreateInProgress
        => \A exercise \in Exercises, solver \in Solvers :
              Cardinality(ActiveOfPair(exercise, solver)) <= 1

\* ---- C34: create_solution(exercise, learner, ...) changes the state only of
\* solutions of the same exercise and the same learner: every solution of
\* another learner or another exercise keeps its state, checker and grade
C34_CreateSolutionFrame ==
    [][Len(solutions') = Len(solutions) + 1 =>
          \A id \in DOMAIN solutions :
              \/ /\ solutions[id].exercise = solutions'[Len(solutions')].exercise
                 /\ solutions[id].solver = solutions'[Len(solutions')].solver
              \/ solutions'[id] = solutions[id]]_vars

\* learner 1's solution is DONE and learner 2 has then submitted to the same
\* exercise
C34_Witness ==
    /\ Len(solutions) = 2
    /\ solutions[1].exercise = solutions[2].exercise
    /\ solutions[1].solver # solutions[2].solver
    /\ solutions[1].state = DONE
    /\ solutions[1].submission_timestamp < solutions[2].submission_timestamp
    /\ solutions[2].state = CREATED

\* the rows a step has deleted or rewritten
Touched == notifications \ notifications'

\* ---- C35: retention is per recipient: a send or a read for user A never
\* deletes or modifies a notification whose recipient is another user B,
\* whatever the number of notifications A holds
C35_RetentionPerRecipient ==
    [][/\ Len(sent') > Len(sent) => Touched = {}
       /\ \A w \in Writers :
             wpc[w] # "idle" /\ wpc'[w] # wpc[w]
                => \A n \in Touched : n.user = winstance[w].user
       /\ reads' # reads
             => \E read_one \in notifications :
                   /\ \A n \in Touched : n.user = read_one.user
                   /\ notifications' \ notifications
                         \subseteq {viewed_true(read_one)}]_vars

\* a send for user 1 took user 1 past the cap and the hook has trimmed user
\* 1's oldest row, while the row user 2 held before is still there
C35_Witness ==
    /\ \A w \in Writers : wpc[w] = "idle"
    /\ Len(sent) > MAX_PER_USER + 1
    /\ sent[MAX_PER_USER + 1].user = 2
    /\ sent[MAX_PER_USER + 1] \in notifications
    /\ sent[Len(sent)].user = 1
    /\ Cardinality(OfUser(notifications, 1)) = MAX_PER_USER
    /\ ~(\E n \in notifications : n.id = 1)

CreatedCount(S) == Cardinality({id \in DOMAIN S : S[id].state = CREATED})

\* ---- C36: queue drain: with nothing added, a reviewer who repeats 'select
\* next unchecked, start_checking it' takes one CREATED solution to
\* IN_CHECKING at each successful start_checking, so the number of CREATED
\* solutions strictly decreases, no solution is selected twice, and after
\* finitely many iterations the selector returns none
C36_QueueDrains ==
    /\ [][/\ CreatedCount(solutions') = CreatedCount(solutions) - 1
          /\ \E id \in DOMAIN solutions :
                /\ solutions[id].state = CREATED
                /\ solutions' = [solutions EXCEPT ![id].state = IN_CHECKING]]_vars
    /\ <>[](next_unchecked = {None})

\* the queue held the solutions of two learners and is drained: both are
\* IN_CHECKING and the selector returns none
C36_Witness ==
    /\ Len(solutions) = 2
    /\ solutions[1].solver # solutions[2].solver
    /\ solutions[1].state = IN_CHECKING
    /\ solutions[2].state = IN_CHECKING
    /\ commentRows[1] = 1
    /\ next_unchecked = {None}

\* ---- C37: run_check on a solution whose exercise has no automated test
\* does nothing: whatever the checker would have produced, no
\* TestExecutionResult row is created (no fatal_test_failure row either) and
\* no notification is sent
C37_NoTestNoIngestion ==
    [][(/\ run' # NoRun
        /\ solutions[run'.call.solution].exercise \notin ExercisesWithTest)
          => /\ ~run'.raised
             /\ testRows' = testRows
             /\ sent' = sent
             /\ notifications' = notifications]_vars

\* run_check has returned for a solution of an exercise without a test, for a
\* run in which the executor would have raised
C37_Witness ==
    /\ run.call.solution # None
    /\ solutions[run.call.solution].exercise \notin ExercisesWithTest
    /\ run.call.executor_raised
    /\ ~run.raised

\* ---- C38: password-change lockout: a validation with a wrong current
\* password adds exactly one to the session's invalid-tries counter, one with
\* the correct password leaves it unchanged; once the counter is >=
\* INVALID_TRIES every validation is rejected, the correct password included,
\* and the counter is not incremented further
C38_PasswordLockout ==
    [][\A user \in Solvers :
          session'[user] # session[user] =>
             LET before == session[user].invalid_tries
                 after == session'[user].invalid_tries
                 correct == session'[user].data = user
             IN IF before >= INVALID_TRIES
                THEN session'[user].rejected /\ after = before
                ELSE IF correct
                THEN ~session'[user].rejected /\ after = before
                ELSE session'[user].rejected /\ after = before + 1]_vars

\* a locked-out user has typed the correct password and was rejected
C38_Witness ==
    \E user \in Solvers :
        /\ session[user].invalid_tries = INVALID_TRIES
        /\ session[user].validated = INVALID_TRIES + 1
        /\ session[user].data = user
        /\ session[user].rejected

====
